---- MODULE Spec2Model ----
(***************************************************************************)
(* A model of the SPyC_Writer package: the SPC file writer                 *)
(* (SPCFileWriter.write_spc_file) and the encoders it drives, at the level *)
(* of the bytes they produce.                                              *)
(*                                                                         *)
(* Numbers.  Samples, Z and W values are integers small enough to be exact *)
(* in IEEE-754 single precision, so astype(float32) changes none of them;  *)
(* their byte encodings are computed bit by bit (F32Bytes, F64Bytes).      *)
(* Byte order is little-endian.  struct.pack("l", ..) is the platform's C  *)
(* long: 4 bytes on Windows and 32-bit builds, 8 bytes on 64-bit Linux and *)
(* macOS.  The width is the variable long_size, chosen in Init.            *)
(*                                                                         *)
(* A Python call either returns a value or raises; an operator that models *)
(* one returns [exc |-> "" or the exception's name, val |-> the value].    *)
(***************************************************************************)
EXTENDS Integers, Sequences, FiniteSets, TLC

\* ------------------------------------------------------------- bounds
MaxPts == 2
MaxTraces == 3
MaxZ == 3
MaxW == 2

\* ------------------------------------------------- program constants
RES_DESC_LIMIT == 9
SRC_INSTRUMENT_LIMIT == 9
MEMO_LIMIT == 130
AXES_LIMIT == 30
METHOD_FILE_LIMIT == 48
SPARE_LIMIT == 8
RESERVE_LIMIT == 187
LOG_RESERVE_LIMIT == 44

\* SPCFileType flags
TMULTI == 4
TXYXYS == 64
TXVALS == 128

\* file_type & flag
HasFlag(ft, flag) == (ft \div flag) % 2 = 1

\* the widths struct.pack("l", ..) has on the platforms Python runs on
LongSizes == {4, 8}

\* ------------------------------------------------------------- bytes
Zeros(n) == [i \in 1..n |-> 0]

Abs(v) == IF v < 0 THEN -v ELSE v

Min2(a, b) == IF a < b THEN a ELSE b

RECURSIVE Concat(_)
\* b"".join(list)
Concat(ss) == IF ss = <<>> THEN <<>> ELSE Head(ss) \o Concat(Tail(ss))

\* int.to_bytes(n, byteorder="little"), unsigned: OverflowError outside 0 .. 256^n - 1
to_bytes(v, n) ==
    IF v < 0 \/ (n < 4 /\ v >= 256 ^ n)
    THEN [exc |-> "OverflowError", val |-> <<>>]
    ELSE [exc |-> "", val |-> [i \in 1..n |-> (v \div (256 ^ (i - 1))) % 256]]

\* struct.pack("l", v): the native C long, two's complement, size bytes
PackLong(v, size) ==
    [i \in 1..size |->
        IF i <= 4
        THEN IF v >= 0 THEN (v \div (256 ^ (i - 1))) % 256
             ELSE 255 - (((-v - 1) \div (256 ^ (i - 1))) % 256)
        ELSE IF v >= 0 THEN 0 ELSE 255]

\* floor(log2(n)) for n >= 1
Log2(n) == CHOOSE e \in 0..30 : 2 ^ e <= n /\ n < 2 ^ (e + 1)

\* the w-bit binary numeral of n, most significant bit first
BitsOf(n, w) == [i \in 1..w |-> (n \div (2 ^ (w - i))) % 2]

\* the IEEE-754 bit pattern (sign, eb exponent bits, mb fraction bits) of the
\* integer v, |v| < 2^(mb+1): such a v is exact in the format
IEEEBits(v, eb, mb) ==
    IF v = 0 THEN Zeros(1 + eb + mb)
    ELSE LET a == Abs(v)
             e == Log2(a)
         IN  <<IF v < 0 THEN 1 ELSE 0>>
             \o BitsOf(e + 2 ^ (eb - 1) - 1, eb)
             \o BitsOf(a - 2 ^ e, e)
             \o Zeros(mb - e)

\* the bytes of a bit pattern, least significant byte first
BitsToBytesLE(bits) ==
    LET n == Len(bits) \div 8
        ByteAt(k) == LET o == (n - k) * 8
                     IN  bits[o + 1] * 128 + bits[o + 2] * 64 + bits[o + 3] * 32
                         + bits[o + 4] * 16 + bits[o + 5] * 8 + bits[o + 6] * 4
                         + bits[o + 7] * 2 + bits[o + 8]
    IN  [k \in 1..n |-> ByteAt(k)]

\* struct.pack("f", v) / ndarray.astype("<f4").tobytes() of one value
F32Bytes(v) == BitsToBytesLE(IEEEBits(v, 8, 23))

\* struct.pack("d", v)
F64Bytes(v) == BitsToBytesLE(IEEEBits(v, 11, 52))

\* struct.pack("e", v)
F16Bytes(v) == BitsToBytesLE(IEEEBits(v, 5, 10))

\* ------------------------------------------------------------- arrays
\* A numpy array of one or two dimensions: nd is len(a.shape); a 1-D array is
\* the single row rows[1], a 2-D array has one row per first index.
Arr1(vals) == [nd |-> 1, rows |-> <<vals>>]

Arr2(rs) == [nd |-> 2, rows |-> rs]

EmptyArr == Arr1(<<>>)

\* len(a): the first extent
np_len(a) == IF a.nd = 1 THEN Len(a.rows[1]) ELSE Len(a.rows)

\* the elements in memory order
Flat(a) == Concat(a.rows)

\* a.size
np_size(a) == Len(Flat(a))

\* np.amin(a), np.amax(a) of a non-empty array
amin(a) == LET f == Flat(a) IN CHOOSE m \in {f[i] : i \in 1..Len(f)} :
               \A j \in 1..Len(f) : m <= f[j]

amax(a) == LET f == Flat(a) IN CHOOSE m \in {f[i] : i \in 1..Len(f)} :
               \A j \in 1..Len(f) : m >= f[j]

\* the float32 bytes of a sequence of values
F32Seq(vals) == Concat([i \in 1..Len(vals) |-> F32Bytes(vals[i])])

\* SPCFileWriter.convert_points: astype(float32).tobytes()
convert_points(a) == F32Seq(Flat(a))

\* ------------------------------------------------------ fit_byte_block
\* common.fit_byte_block / SPCFileWriter.fit_byte_block: pad with zeros up to
\* limit; when longer, cut to limit and zero the last byte (field[-1] of an
\* empty bytearray is an IndexError)
fit_byte_block(fld, limit) ==
    IF Len(fld) < limit
    THEN [exc |-> "", val |-> fld \o Zeros(limit - Len(fld))]
    ELSE IF Len(fld) > limit
    THEN IF limit = 0
         THEN [exc |-> "IndexError", val |-> <<>>]
         ELSE [exc |-> "", val |-> SubSeq(fld, 1, limit - 1) \o <<0>>]
    ELSE [exc |-> "", val |-> fld]

\* the caller's bytearray after fit_byte_block(field, limit): the loop of
\* lines 61-62 extends the object it was given; the cut of line 64 rebinds
\* the local name to a new object and leaves the caller's alone
fit_byte_block_field(fld, limit) ==
    IF Len(fld) < limit THEN fld \o Zeros(limit - Len(fld)) ELSE fld

\* ------------------------------------------------------------- SPCDate
\* A datetime, or None: [none |-> TRUE] with the fields zero.
NoDate == [none |-> TRUE, year |-> 0, month |-> 0, day |-> 0, hour |-> 0, minute |-> 0]

Date(y, mo, d, h, mi) ==
    [none |-> FALSE, year |-> y, month |-> mo, day |-> d, hour |-> h, minute |-> mi]

\* PackDate with the hour shifted by 5 bits instead of 6
PackDate_mut(t) ==
    LET low == t.minute + t.hour * 32 + t.day * 2048 + t.month * 65536
    IN  IF t.year >= 4096
        THEN [exc |-> "OverflowError", val |-> <<>>]
        ELSE [exc |-> "",
              val |-> << low % 256,
                         (low \div 256) % 256,
                         (low \div 65536) + (t.year % 16) * 16,
                         t.year \div 16 >>]

\* the 4 little-endian bytes of minute | hour<<6 | day<<11 | month<<16 | year<<20
\* for datetime's field ranges (minute < 60, hour < 24, day <= 31, month <= 12:
\* the low four fields never overlap); int.to_bytes(4) raises OverflowError when
\* the value needs more than 32 bits, that is when year >= 4096
PackDate(t) ==
    LET low == t.minute + t.hour * 64 + t.day * 2048 + t.month * 65536
    IN  IF t.year >= 4096
        THEN [exc |-> "OverflowError", val |-> <<>>]
        ELSE [exc |-> "",
              val |-> << low % 256,
                         (low \div 256) % 256,
                         (low \div 65536) + (t.year % 16) * 16,
                         t.year \div 16 >>]

\* SPCFileWriter.SPCDate.__init__: for None it evaluates datetime.datetime.now()
\* where datetime is the class (from datetime import datetime): AttributeError
SPCDate(time) ==
    IF time.none THEN [exc |-> "AttributeError", val |-> <<>>] ELSE PackDate(time)

\* SPCDate.SPCDate.__init__ (module SPCDate.py): None packs all-zero fields
SPCDate_SPCDate(time) == PackDate(time)

\* ---------------------------------------------------------------- text
\* str.encode("utf-8") of one code point below 65536
Utf8Char(c) ==
    IF c < 128 THEN <<c>>
    ELSE IF c < 2048 THEN <<192 + (c \div 64), 128 + (c % 64)>>
    ELSE <<224 + (c \div 4096), 128 + ((c \div 64) % 64), 128 + (c % 64)>>

\* str.encode("utf-8"): a string is its sequence of code points
Utf8(str) == Concat([i \in 1..Len(str) |-> Utf8Char(str[i])])

\* b"\x00".join(items)
JoinNul(items) ==
    Concat([i \in 1..Len(items) |-> IF i = 1 THEN items[i] ELSE <<0>> \o items[i]])

\* dataclasses.field(default_factory=list): the Field object that
\* SPCFileWriter.__init__ has as the default of custom_units
FieldDefault == [is_field |-> TRUE, items |-> <<>>]

\* a list of strings given by the caller
StrList(items) == [is_field |-> FALSE, items |-> items]

\* ----------------------------------------------------------- SPCHeader
\* the first exception among rs (records [exc, val]), "" when none raised
FirstExc(rs) ==
    IF \A i \in 1..Len(rs) : rs[i].exc = "" THEN ""
    ELSE rs[CHOOSE i \in 1..Len(rs) :
                rs[i].exc # "" /\ \A j \in 1..(i - 1) : rs[j].exc = ""].exc

\* len(a[idx]) as calc_log_offset takes it: a[idx] of a 1-D array is a numpy
\* scalar, which has no len(); an index past the first extent is an IndexError
LenOfItem(a, idx) ==
    IF idx > np_len(a) THEN [exc |-> "IndexError", val |-> 0]
    ELSE IF a.nd = 1 THEN [exc |-> "TypeError", val |-> 0]
    ELSE [exc |-> "", val |-> Len(a.rows[idx])]

RECURSIVE SumXY(_, _, _, _)
\* the loop of calc_log_offset for TMULTI and TXYXYS, from index idx (1-based)
\* with acc so far: len(x_values[idx]) * 4 + len(y_values[idx]) * 4 per index
SumXY(x, y, idx, acc) ==
    IF idx > np_len(x) THEN [exc |-> "", val |-> acc]
    ELSE LET lx == LenOfItem(x, idx)
             ly == LenOfItem(y, idx)
         IN  IF lx.exc # "" THEN lx
             ELSE IF ly.exc # "" THEN ly
             ELSE SumXY(x, y, idx + 1, acc + lx.val * 4 + ly.val * 4)

RECURSIVE SumY(_, _, _, _)
\* the loop of calc_log_offset for TMULTI without TXYXYS
SumY(y, n, idx, acc) ==
    IF idx > np_len(y) THEN [exc |-> "", val |-> acc]
    ELSE LET ly == LenOfItem(y, idx)
         IN  IF ly.exc # "" THEN ly
             ELSE SumY(y, n, idx + 1, acc + (ly.val * 4) * n)

\* SPCHeader.calc_log_offset
calc_log_offset(file_type, num_subfiles, x_values, y_values) ==
    LET base == 512 + num_subfiles * 32
        withx == IF HasFlag(file_type, TXVALS) /\ ~HasFlag(file_type, TXYXYS)
                 THEN base + np_len(x_values) * 4 ELSE base
    IN  IF HasFlag(file_type, TMULTI) /\ HasFlag(file_type, TXYXYS)
        THEN SumXY(x_values, y_values, 1, withx)
        ELSE IF HasFlag(file_type, TMULTI)
        THEN SumY(y_values, num_subfiles, 1, withx)
        ELSE [exc |-> "", val |-> withx + (np_len(y_values) * 4) * num_subfiles]

\* the header's numPoints field (lines 291-296 and 316-321)
header_num_points(h, log_offset) ==
    IF HasFlag(h.file_type, TMULTI) /\ HasFlag(h.file_type, TXVALS)
       /\ HasFlag(h.file_type, TXYXYS)
    THEN to_bytes(log_offset, 4).val
    ELSE IF ~HasFlag(h.file_type, TXYXYS)
    THEN to_bytes(h.num_points, 4).val
    ELSE Zeros(4)

\* the log offset generate_header ends with (lines 315-322): calc_log_offset
\* plus 12 bytes per subfile when TMULTI and TXVALS
header_log_offset(h, log_offset) ==
    IF HasFlag(h.file_type, TMULTI) /\ HasFlag(h.file_type, TXVALS)
    THEN log_offset + h.num_subfiles * 12
    ELSE log_offset

\* the flogoff field as lines 323-326 alone would leave it: the packed log
\* offset when a log is generated
header_Blog_offset_mut(h, log_offset, L) ==
    IF h.generate_log THEN PackLong(log_offset, L) ELSE Zeros(4)

\* the flogoff field: lines 323-326 choose by generate_log, line 327 then
\* overwrites the choice with four zero bytes
header_Blog_offset(h, log_offset, L) == Zeros(4)

\* SPCHeader.generate_header up to the join of line 344: the fields in order
header_fields(h, L) ==
    LET custom == IF h.custom_axes.is_field
                  THEN [exc |-> "", val |-> JoinNul(<<>>)]
                  ELSE [exc |-> "AttributeError", val |-> <<>>]
        lo == calc_log_offset(h.file_type, h.num_subfiles, h.x_values, h.y_values)
        exc == FirstExc(<<custom, lo>>)
    IN  IF exc # "" THEN [exc |-> exc, val |-> <<>>]
        ELSE [exc |-> "",
              val |-> <<
                to_bytes(h.file_type, 1).val,
                to_bytes(h.file_version, 1).val,
                to_bytes(h.experiment_type, 1).val,
                PackLong(h.exponent, 1),
                header_num_points(h, lo.val),
                F64Bytes(h.first_x),
                F64Bytes(h.last_x),
                PackLong(h.num_subfiles, L),
                to_bytes(h.x_units, 1).val,
                to_bytes(h.y_units, 1).val,
                to_bytes(h.z_units, 1).val,
                to_bytes(h.post_disposition, 1).val,
                h.compress_date,
                fit_byte_block(Utf8(h.res_desc), RES_DESC_LIMIT).val,
                fit_byte_block(Utf8(h.src_instrument_desc), SRC_INSTRUMENT_LIMIT).val,
                F16Bytes(h.peak_point),
                Zeros(4 * SPARE_LIMIT),
                fit_byte_block(Utf8(h.memo), MEMO_LIMIT).val,
                fit_byte_block(custom.val, AXES_LIMIT).val,
                header_Blog_offset(h, header_log_offset(h, lo.val), L),
                PackLong(h.spectra_mod_flag, L),
                to_bytes(h.process_code, 1).val,
                h.calib_plus_one,
                h.sample_inject,
                h.data_mul,
                fit_byte_block(h.method_file, METHOD_FILE_LIMIT).val,
                F32Bytes(h.z_subfile_inc),
                PackLong(h.num_w_planes, L),
                F32Bytes(h.w_plane_inc),
                to_bytes(h.w_units, 1).val,
                Zeros(RESERVE_LIMIT) >>]

\* file_header = b"".join([...]) (line 339), when encoding the fields raised
\* nothing
header_join(f) == IF f.exc # "" THEN f ELSE [exc |-> "", val |-> Concat(f.val)]

\* lines 346-347 of SPCFileWriter.py: if len(file_header) < 512: raise
header_at_least_512(file_header) ==
    IF file_header.exc = "" /\ Len(file_header.val) < 512
    THEN [exc |-> "RuntimeError", val |-> <<>>]
    ELSE file_header

\* lines 117-119 of SPCHeader.py: if len(file_header) != 512: raise
header_exactly_512(file_header) ==
    IF file_header.exc = "" /\ Len(file_header.val) # 512
    THEN [exc |-> "RuntimeError", val |-> <<>>]
    ELSE file_header

\* SPCFileWriter.SPCHeader.generate_header, the class write_spc_file uses:
\* a bare raise (RuntimeError) when the header is shorter than 512 bytes
generate_header(h, L) == header_at_least_512(header_join(header_fields(h, L)))

\* SPCHeader.SPCHeader.generate_header (module SPCHeader.py): RuntimeError
\* when the header is not 512 bytes
SPCHeader_generate_header(h, L) == header_exactly_512(header_join(header_fields(h, L)))

\* -------------------------------------------------------- SPCSubheader
\* an optional dataclass field: None, or a value
None == <<>>

Some(v) == <<v>>

\* the fields of a subheader in order (generate_subheader up to the join):
\* unset optional fields are four zero bytes, set ones are packed, num_points
\* and num_coadded with the native "l"
subheader_fields(s, L) ==
    << to_bytes(s.subfile_flags, 1).val,
       PackLong(s.exponent, 1),
       to_bytes(s.sub_index, 2).val,
       F32Bytes(s.start_z),
       IF s.end_z = None THEN F32Bytes(s.start_z) ELSE F32Bytes(s.end_z[1]),
       IF s.noise_value = None THEN Zeros(4) ELSE F32Bytes(s.noise_value[1]),
       IF s.num_points = None THEN Zeros(4) ELSE PackLong(s.num_points[1], L),
       IF s.num_coadded = None THEN Zeros(4) ELSE PackLong(s.num_coadded[1], L),
       F32Bytes(s.w_axis_value),
       Zeros(4) >>

\* SPCFileWriter.SPCSubheader.generate_subheader, the class write_spc_file
\* uses: it returns the join whatever its length
generate_subheader(s, L) == [exc |-> "", val |-> Concat(subheader_fields(s, L))]

\* lines 54-56 of SPCSubheader.py: if len(subheader) != 32: raise
subheader_exactly_32(subheader) ==
    IF Len(subheader) # 32 THEN [exc |-> "RuntimeError", val |-> <<>>]
    ELSE [exc |-> "", val |-> subheader]

\* SPCSubheader.SPCSubheader.generate_subheader (module SPCSubheader.py):
\* RuntimeError when the join is not 32 bytes
SPCSubheader_generate_subheader(s, L) ==
    subheader_exactly_32(Concat(subheader_fields(s, L)))

\* SPCSubheader(start_z=.., sub_index=.., num_points=.., w_axis_value=..)
SPCSubheader(start_z, sub_index, num_points, w_axis_value) ==
    [subfile_flags |-> 0, exponent |-> -128, sub_index |-> sub_index,
     start_z |-> start_z, end_z |-> None, noise_value |-> None,
     num_points |-> Some(num_points), num_coadded |-> None,
     w_axis_value |-> w_axis_value]

\* -------------------------------------------------------------- SPCLog
\* Python's round(n / 4096): to the nearest integer, a tie to the even one
RoundDiv4096(n) ==
    LET q == n \div 4096
        r == n % 4096
    IN  IF r < 2048 THEN q
        ELSE IF r > 2048 THEN q + 1
        ELSE IF q % 2 = 0 THEN q ELSE q + 1

\* SPCLog.generate_log_header
generate_log_header(log_data, log_text, L) ==
    LET text_len == Len(Utf8(log_text))
        data_len == Len(log_data)
        block_size == 64 + text_len + data_len
        mem_block == 4096 * RoundDiv4096(block_size)
        text_offset == 64 + data_len
    IN  PackLong(block_size, L) \o PackLong(mem_block, L) \o PackLong(text_offset, L)
        \o PackLong(data_len, L) \o Zeros(4) \o Zeros(LOG_RESERVE_LIMIT)

\* ------------------------------------------------------- SPCFileWriter
\* SPCFileWriter.generate_dir_pointer
generate_dir_pointer(offset, sub_size, z_val) ==
    to_bytes(offset, 4).val \o to_bytes(sub_size, 4).val \o F32Bytes(z_val)

RECURSIVE Halvings(_, _)
\* the loop of calculate_exponent: product = max_num * 2^32 is halved while it
\* exceeds 2^32, that is while max_num > 2^exponent; a bare raise past 127
Halvings(max_num, exponent) ==
    IF max_num > 2 ^ exponent
    THEN IF exponent + 1 > 127 THEN [exc |-> "RuntimeError", val |-> 0]
         ELSE Halvings(max_num, exponent + 1)
    ELSE [exc |-> "", val |-> exponent]

\* SPCFileWriter.calculate_exponent(x_values, y_values); np.amax of an empty
\* array is a ValueError
calculate_exponent(x_values, y_values) ==
    IF np_size(x_values) = 0 \/ np_size(y_values) = 0
    THEN [exc |-> "ValueError", val |-> 0]
    ELSE LET max_x == Abs(amax(x_values))
             max_y == Abs(amax(y_values))
             max_num == IF max_x > max_y THEN max_x ELSE max_y
         IN  Halvings(max_num, 0)

\* a call of a calculate_exponent that takes the X values alone and returns
call_calculate_exponent_mut(args) == calculate_exponent(args[1], args[1])

\* a call of self.calculate_exponent with the positional arguments args: the
\* method takes exactly two, any other number is a TypeError
call_calculate_exponent(args) ==
    IF Len(args) # 2 THEN [exc |-> "TypeError", val |-> 0]
    ELSE calculate_exponent(args[1], args[2])

\* points_count and self.exponent after lines 550-558
points_count_of(self, y_values, x_values) ==
    IF ~HasFlag(self.file_type, TMULTI)
    THEN [exc |-> "", val |-> np_len(y_values), exponent |-> self.exponent]
    ELSE IF ~HasFlag(self.file_type, TXYXYS)
    THEN LET l0 == LenOfItem(y_values, 1)
             e == call_calculate_exponent(<<x_values>>)
         IN  IF l0.exc # ""
             THEN [exc |-> l0.exc, val |-> 0, exponent |-> self.exponent]
             ELSE IF e.exc # ""
             THEN [exc |-> e.exc, val |-> 0, exponent |-> self.exponent]
             ELSE [exc |-> "", val |-> l0.val, exponent |-> e.val]
    ELSE [exc |-> "", val |-> 0, exponent |-> self.exponent]

\* num_traces (lines 559-562)
num_traces_of(y_values) == IF y_values.nd = 1 THEN 1 ELSE Len(y_values.rows)

\* the W value of trace i (lines 608-610): with W values given, the index
\* expression calls the array, w_values(len), a TypeError
w_val_of(w_values, i) ==
    IF np_size(w_values) # 0 THEN [exc |-> "TypeError", val |-> 0]
    ELSE [exc |-> "", val |-> 0]

\* z_val_of without the single-element case: a one-element Z is indexed like
\* any other, so only the first trace gets its value
z_val_of_mut(z_values, i) ==
    IF np_len(z_values) = 0 THEN 0
    ELSE IF i + 1 <= np_len(z_values) THEN z_values.rows[1][i + 1]
    ELSE 0

\* the start Z of trace i, 0-based (lines 614-623)
z_val_of(z_values, i) ==
    IF np_len(z_values) = 0 THEN 0
    ELSE IF np_len(z_values) = 1 THEN z_values.rows[1][1]
    ELSE IF i + 1 <= np_len(z_values) THEN z_values.rows[1][i + 1]
    ELSE 0

\* convert_points(a[i], "<f4"), i 0-based: a row of a 2-D array, one element
\* of a 1-D array, IndexError past the first extent
convert_item(a, i) ==
    IF i + 1 > np_len(a) THEN [exc |-> "IndexError", val |-> <<>>]
    ELSE IF a.nd = 1 THEN [exc |-> "", val |-> F32Bytes(a.rows[1][i + 1])]
    ELSE [exc |-> "", val |-> F32Seq(a.rows[i + 1])]

\* lines 629-639: the subfile of one trace from its parts, each a record
\* [exc, val]; the first exception among them is the one raised
subfile_join(w, pc_i, bx, by, sub_head, z_val) ==
    [exc |-> FirstExc(<<w, pc_i, bx, by, sub_head>>), sub_head |-> sub_head.val,
     z_val |-> z_val, subfile |-> sub_head.val \o bx.val \o by.val]

\* lines 625-628: the subfile header of trace i
subheader_of(L, z_val, i, pc_i, w) ==
    generate_subheader(SPCSubheader(z_val, i, pc_i.val, w.val), L)

\* lines 607-628 with w, the points count and the start Z of trace i worked out
subfile_from(self, L, y_values, x_values, By_values, i, w, pc_i, z_val) ==
    subfile_join(w, pc_i,
                 IF HasFlag(self.file_type, TXYXYS) THEN convert_item(x_values, i)
                 ELSE [exc |-> "", val |-> <<>>],
                 IF HasFlag(self.file_type, TXYXYS) \/ HasFlag(self.file_type, TMULTI)
                 THEN convert_item(y_values, i)
                 ELSE [exc |-> "", val |-> By_values],
                 subheader_of(L, z_val, i, pc_i, w), z_val)

\* one pass of the loop of lines 606-643 for trace i (0-based): the subfile
\* header, the subfile and the start Z, or the exception raised
subfile_of(self, L, y_values, x_values, z_values, w_values, points_count, By_values, i) ==
    subfile_from(self, L, y_values, x_values, By_values, i,
                 w_val_of(w_values, i),
                 IF HasFlag(self.file_type, TXYXYS) THEN LenOfItem(y_values, i + 1)
                 ELSE [exc |-> "", val |-> points_count],
                 z_val_of(z_values, i))

\* lines 640-643: the subfile s of a trace appended to file_output, its
\* directory entry to dir_pointers
trace_append(acc, s) ==
    IF s.exc # "" THEN [acc EXCEPT !.exc = s.exc]
    ELSE [exc |-> "",
          file_output |-> acc.file_output \o s.subfile,
          dir_pointers |-> Append(acc.dir_pointers,
                                  generate_dir_pointer(Len(acc.file_output),
                                                       Len(s.subfile), s.z_val)),
          sub_heads |-> Append(acc.sub_heads, s.sub_head)]

RECURSIVE trace_loop(_, _, _, _, _, _, _, _, _, _)
\* the loop of lines 606-643 from trace i on; acc holds file_output,
\* dir_pointers and the subfile headers generated so far
trace_loop(self, L, y_values, x_values, z_values, w_values, points_count, By_values, i, acc) ==
    IF i >= num_traces_of(y_values) \/ acc.exc # "" THEN acc
    ELSE trace_loop(self, L, y_values, x_values, z_values, w_values,
                    points_count, By_values, i + 1,
                    trace_append(acc, subfile_of(self, L, y_values, x_values, z_values,
                                                 w_values, points_count, By_values, i)))

\* SPCHeader(...) as write_spc_file constructs it (lines 575-598); the fields
\* it does not pass keep the dataclass defaults of lines 254-284
SPCHeader(self, points_count, compress_date, x_values, y_values, first_x, last_x, num_traces, generate_log) ==
    [file_type |-> self.file_type, num_points |-> points_count,
     compress_date |-> compress_date, x_values |-> x_values, y_values |-> y_values,
     file_version |-> 75, experiment_type |-> self.experiment_type,
     exponent |-> -128, first_x |-> first_x, last_x |-> last_x,
     num_subfiles |-> num_traces, x_units |-> self.x_units,
     y_units |-> self.y_units, z_units |-> self.z_units, post_disposition |-> 0,
     res_desc |-> self.res_desc, src_instrument_desc |-> self.src_instrument_desc,
     peak_point |-> 0, memo |-> self.memo, custom_axes |-> self.custom_units,
     spectra_mod_flag |-> self.spectra_mod_flag, process_code |-> 1,
     calib_plus_one |-> <<0>>, sample_inject |-> <<0, 0>>, data_mul |-> Zeros(4),
     method_file |-> <<0>>, z_subfile_inc |-> self.z_subfile_inc,
     num_w_planes |-> self.num_w_planes, w_plane_inc |-> self.w_plane_inc,
     w_units |-> self.w_units, generate_log |-> generate_log]

\* what a call of write_spc_file leaves: ret is "True", "False" or "raise"
\* (with exc the exception); file_output, file_header, sub_heads and
\* dir_pointers are the call's locals when it reached the write; exponent is
\* self.exponent after the call; disk is the destination after the call
Outcome(ret, exc, exponent, disk) ==
    [ret |-> ret, exc |-> exc, file_output |-> <<>>, file_header |-> <<>>,
     sub_heads |-> <<>>, dir_pointers |-> <<>>, exponent |-> exponent,
     opened |-> FALSE, disk |-> disk]

\* the destination file: untouched by the call, holding the bytes written, or
\* cut short by a write that failed after open(file_name, "wb")
Untouched == [state |-> "untouched", bytes |-> <<>>]

Written(bytes) == [state |-> "written", bytes |-> bytes]

Partial == [state |-> "partial", bytes |-> <<>>]

\* store with no handler around the write: a failing f.write propagates
store_mut(file_output, io) ==
    IF io = "ok" THEN [ret |-> "True", disk |-> Written(file_output)]
    ELSE IF io = "open_fails" THEN [ret |-> "False", disk |-> Untouched]
    ELSE [ret |-> "raise", disk |-> Partial]

\* lines 654-660: open, write, return True; any exception is logged and
\* the call returns False
store(file_output, io) ==
    IF io = "ok" THEN [ret |-> "True", disk |-> Written(file_output)]
    ELSE IF io = "open_fails" THEN [ret |-> "False", disk |-> Untouched]
    ELSE [ret |-> "False", disk |-> Partial]

\* lines 645-652: the directory and the log block appended to file_output
with_dir_and_log(self, L, generate_log, file_output, dir_pointers) ==
    LET with_dir == IF HasFlag(self.file_type, TXVALS) /\ HasFlag(self.file_type, TXYXYS)
                    THEN file_output \o Concat(dir_pointers)
                    ELSE file_output
    IN  IF generate_log
        THEN with_dir \o generate_log_header(self.log_data, self.log_text, L)
             \o self.log_data \o Utf8(self.log_text)
        ELSE with_dir

\* lines 541-549: first_x and last_x
first_last_x(y_values, x_values) ==
    IF np_size(x_values) = 0
    THEN [first_x |-> 0, last_x |-> np_len(y_values)]
    ELSE [first_x |-> amin(x_values), last_x |-> amax(x_values)]

\* line 542: the test that turns an empty x_values into "return False"
missing_x(self, x_values) == np_size(x_values) = 0 /\ self.file_type = TXVALS

\* lines 564-567: the test that turns W values into "return False"
bad_w(num_traces, w_values) ==
    np_size(w_values) # 0 /\ num_traces % np_len(w_values) # 0

\* lines 599-603: file_output before the loop
header_and_x(self, file_header, Bx_values) ==
    IF HasFlag(self.file_type, TXVALS) /\ ~HasFlag(self.file_type, TXYXYS)
    THEN file_header \o Bx_values
    ELSE file_header

\* lines 654-660 with the bytes to write at hand
write_out(pts, file_header, loop, file_output, st) ==
    [ret |-> st.ret, exc |-> "", file_output |-> file_output,
     file_header |-> file_header.val, sub_heads |-> loop.sub_heads,
     dir_pointers |-> loop.dir_pointers, exponent |-> pts.exponent,
     opened |-> TRUE, disk |-> st.disk]

\* lines 645-660 with the outcome of the loop at hand
write_from_output(io, pts, file_header, loop, file_output) ==
    write_out(pts, file_header, loop, file_output, store(file_output, io))

\* write_spc_file of a writer that stores the header before it encodes the
\* traces: a failure in the loop leaves the destination with the header
write_from_loop_mut(self, L, io, pts, file_header, loop) ==
    IF loop.exc # "" THEN Outcome("raise", loop.exc, pts.exponent, Written(file_header.val))
    ELSE write_from_output(io, pts, file_header, loop,
            with_dir_and_log(self, L, Len(self.log_data) > 0 \/ Len(self.log_text) > 0,
                             loop.file_output, loop.dir_pointers))

write_from_loop(self, L, io, pts, file_header, loop) ==
    IF loop.exc # "" THEN Outcome("raise", loop.exc, pts.exponent, Untouched)
    ELSE write_from_output(io, pts, file_header, loop,
            with_dir_and_log(self, L, Len(self.log_data) > 0 \/ Len(self.log_text) > 0,
                             loop.file_output, loop.dir_pointers))

\* lines 599-660 with the outcome of generate_header at hand
write_from_header(self, L, y_values, x_values, z_values, w_values, io, pts, file_header) ==
    IF file_header.exc # "" THEN Outcome("raise", file_header.exc, pts.exponent, Untouched)
    ELSE write_from_loop(self, L, io, pts, file_header,
            trace_loop(self, L, y_values, x_values, z_values, w_values, pts.val,
                       convert_points(y_values), 0,
                       [exc |-> "",
                        file_output |-> header_and_x(self, file_header.val,
                                                     convert_points(x_values)),
                        dir_pointers |-> <<>>, sub_heads |-> <<>>]))

\* lines 569-660 with first_x, last_x and the packed date at hand
write_from_date(self, L, y_values, x_values, z_values, w_values, io, pts, fl, date) ==
    IF date.exc # "" THEN Outcome("raise", date.exc, pts.exponent, Untouched)
    ELSE write_from_header(self, L, y_values, x_values, z_values, w_values, io, pts,
            generate_header(
                SPCHeader(self, pts.val, date.val, x_values, y_values,
                          fl.first_x, fl.last_x, num_traces_of(y_values),
                          Len(self.log_data) > 0 \/ Len(self.log_text) > 0), L))

\* lines 559-660 with the outcome of lines 550-558 at hand
write_from_points(self, L, y_values, x_values, z_values, w_values, io, pts) ==
    IF pts.exc # "" THEN Outcome("raise", pts.exc, pts.exponent, Untouched)
    ELSE IF bad_w(num_traces_of(y_values), w_values)
    THEN Outcome("False", "", pts.exponent, Untouched)
    ELSE write_from_date(self, L, y_values, x_values, z_values, w_values, io, pts,
                         first_last_x(y_values, x_values), SPCDate(self.compress_date))

\* SPCFileWriter.write_spc_file; io is what the storage sink does if the call
\* gets to open the destination
write_spc_file(self, L, y_values, x_values, z_values, w_values, io) ==
    IF missing_x(self, x_values)
    THEN Outcome("False", "", self.exponent, Untouched)
    ELSE write_from_points(self, L, y_values, x_values, z_values, w_values, io,
                           points_count_of(self, y_values, x_values))

\* ------------------------------------------------------ the state machine
VARIABLES
    long_size,   \* the platform's sizeof(long), the width of struct.pack("l")
    writer,      \* the SPCFileWriter instance: its attributes
    args,        \* the arguments of the last write_spc_file call, and io: what
                 \* the storage sink did ("ok" when the call never got to it)
    res,         \* what that call left (Outcome)
    pc,          \* "constructed" before the call, "returned" after it;
                 \* "header", "header_done" where a header alone is encoded
    hdr,         \* an SPCHeader object
    hdr_ret,     \* what generate_header made of hdr, and which class made it
    date_in,     \* the time argument of an SPCDate under construction
    compressed_date, \* SPCDate.get() of the constructed object, and its class
    log_header,  \* what generate_log_header made of an SPCLog, and its class
    fit,         \* a call of fit_byte_block: its arguments, the caller's
                 \* bytearray as it is now, and what the call returned
    exponent_ret \* what calculate_exponent(args.x_values, args.y_values) returned

vars == <<long_size, writer, args, res, pc, hdr, hdr_ret, date_in, compressed_date, log_header, fit, exponent_ret>>

\* the sample at row r, column c of a Y array and of an X array; Z and W values
YVal(r, c) == IF c = 2 THEN -(10 * r + c) ELSE 10 * r + c

XVal(r, c) == 100 * r - 3 * c

ZVal(i) == 7 + i

WVal(i) == 20 + i

\* 1-D arrays of 0..MaxPts samples, 2-D arrays of 1..MaxTraces rows of
\* 1..MaxPts samples, and a 2-D array with no rows (shape (0, n))
YArrays ==
    {Arr1([c \in 1..n |-> YVal(1, c)]) : n \in 0..MaxPts}
    \cup {Arr2([r \in 1..m |-> [c \in 1..n |-> YVal(r, c)]]) :
            m \in 1..MaxTraces, n \in 1..MaxPts}
    \cup {Arr2(<<>>)}

XArrays ==
    {Arr1([c \in 1..n |-> XVal(1, c)]) : n \in 0..MaxPts}
    \cup {Arr2([r \in 1..m |-> [c \in 1..n |-> XVal(r, c)]]) :
            m \in 1..MaxTraces, n \in 1..MaxPts}

ZArrays == {Arr1([i \in 1..n |-> ZVal(i)]) : n \in 0..MaxZ}

WArrays == {Arr1([i \in 1..n |-> WVal(i)]) : n \in 0..MaxW}

\* every combination of the flags that select the layout
FileTypes ==
    {a + b + c : a \in {0, TMULTI}, b \in {0, TXYXYS}, c \in {0, TXVALS}}

IOOutcomes == {"ok", "open_fails", "write_fails"}

\* SPCFileWriter.__init__ with file_type given and every other parameter at
\* its default (compress_date: the datetime.now() of import time)
SPCFileWriter(file_type) ==
    [file_type |-> file_type, num_pts |-> 0,
     compress_date |-> Date(2024, 3, 15, 9, 30), file_version |-> 75,
     experiment_type |-> 0, exponent |-> 0, first_x |-> 0, last_x |-> 0,
     x_units |-> 0, y_units |-> 0, z_units |-> 0, res_desc |-> <<>>,
     src_instrument_desc |-> <<>>, custom_units |-> FieldDefault, memo |-> <<>>,
     custom_axis_str |-> <<>>, spectra_mod_flag |-> 0, z_subfile_inc |-> 1,
     num_w_planes |-> 0, w_plane_inc |-> 1, w_units |-> 0,
     log_data |-> <<>>, log_text |-> <<>>]

NoArgs ==
    [y_values |-> EmptyArr, x_values |-> EmptyArr, z_values |-> EmptyArr,
     w_values |-> EmptyArr, io |-> "ok"]

\* an SPCHeader with nothing to describe, and no header generated
NoHeader == SPCHeader(SPCFileWriter(0), 0, Zeros(4), EmptyArr, EmptyArr, 0, 0, 0, FALSE)

NoHeaderRet == [cls |-> "", exc |-> "", val |-> <<>>]

\* no SPCDate constructed
NoCompressedDate == [cls |-> "", exc |-> "", val |-> <<>>]

\* no log header generated
NoLogHeader == [cls |-> "", val |-> <<>>]

\* calculate_exponent not called
NoExponent == [exc |-> "", val |-> 0]

\* no call of fit_byte_block
NoFit == [cls |-> "", arg |-> <<>>, field |-> <<>>, limit |-> 0, exc |-> "", val |-> <<>>]

Init ==
    /\ long_size \in LongSizes
    /\ writer \in {SPCFileWriter(ft) : ft \in FileTypes}
    /\ args = NoArgs
    /\ res = Outcome("none", "", 0, Untouched)
    /\ pc = "constructed"
    /\ hdr = NoHeader
    /\ hdr_ret = NoHeaderRet
    /\ date_in = NoDate
    /\ compressed_date = NoCompressedDate
    /\ log_header = NoLogHeader
    /\ fit = NoFit
    /\ exponent_ret = NoExponent

\* one call writer.write_spc_file(file_name, y_values, x_values, z_values, w_values)
WriteCall ==
    /\ pc = "constructed"
    /\ \E y \in YArrays, x \in XArrays, z \in ZArrays, w \in WArrays, io \in IOOutcomes :
          /\ res' = write_spc_file(writer, long_size, y, x, z, w, io)
          /\ io # "ok" => res'.opened
          /\ args' = [y_values |-> y, x_values |-> x, z_values |-> z,
                      w_values |-> w, io |-> io]
          /\ writer' = [writer EXCEPT !.exponent = res'.exponent]
    /\ pc' = "returned"
    /\ UNCHANGED <<long_size, hdr, hdr_ret, date_in, compressed_date, log_header, fit, exponent_ret>>

Next == WriteCall

Spec == Init /\ [][Next]_vars

\* ---------------------------------------------- the header encoder alone
\* SPCHeader objects as a caller of the dataclass can build them: the layout
\* flags, the Y array, and the raw byte fields flevel (calib_plus_one) and
\* ffactor (data_mul), which the encoder joins as they are
RawCalib == {<<>>, <<0>>}

RawDataMul == {Zeros(3), Zeros(4), Zeros(5)}

Headers ==
    {[SPCHeader(SPCFileWriter(ft), np_len(y), PackDate(Date(2024, 3, 15, 9, 30)).val,
                EmptyArr, y, 0, np_len(y), num_traces_of(y), FALSE)
        EXCEPT !.calib_plus_one = cal, !.data_mul = dm] :
        ft \in FileTypes, y \in YArrays, cal \in RawCalib, dm \in RawDataMul}

InitHeader ==
    /\ long_size \in LongSizes
    /\ writer = SPCFileWriter(0)
    /\ args = NoArgs
    /\ res = Outcome("none", "", 0, Untouched)
    /\ pc = "header"
    /\ hdr \in Headers
    /\ hdr_ret = NoHeaderRet
    /\ date_in = NoDate
    /\ compressed_date = NoCompressedDate
    /\ log_header = NoLogHeader
    /\ fit = NoFit
    /\ exponent_ret = NoExponent

\* hdr.generate_header() of the class defined in SPCFileWriter.py
GenerateHeaderWriter ==
    /\ pc = "header"
    /\ LET r == generate_header(hdr, long_size)
       IN  hdr_ret' = [cls |-> "SPCFileWriter.SPCHeader", exc |-> r.exc, val |-> r.val]
    /\ pc' = "header_done"
    /\ UNCHANGED <<long_size, writer, args, res, hdr, date_in, compressed_date, log_header, fit, exponent_ret>>

\* hdr.generate_header() of the class defined in SPCHeader.py
GenerateHeaderModule ==
    /\ pc = "header"
    /\ LET r == SPCHeader_generate_header(hdr, long_size)
       IN  hdr_ret' = [cls |-> "SPCHeader.SPCHeader", exc |-> r.exc, val |-> r.val]
    /\ pc' = "header_done"
    /\ UNCHANGED <<long_size, writer, args, res, hdr, date_in, compressed_date, log_header, fit, exponent_ret>>

NextHeader == GenerateHeaderWriter \/ GenerateHeaderModule

SpecHeader == InitHeader /\ [][NextHeader]_vars

\* ------------------------------------------------- a reference decoder
\* The reader's side of the format, written from the layout and not from the
\* encoders above: a 512-byte header with the point count at offset 4 and the
\* subfile count at offset 24, 32-byte subfile headers, float32 samples.
NotAnInt == 2 ^ 30

\* the value of a little-endian unsigned integer of up to 3 significant bytes
U32(b) == b[1] + b[2] * 256 + b[3] * 65536

\* the integer a little-endian IEEE-754 single holds, NotAnInt when it holds
\* none of magnitude below 2^24
F32Decode(b) ==
    LET sign == b[4] \div 128
        ex == (b[4] % 128) * 2 + (b[3] \div 128)
        man == (b[3] % 128) * 65536 + b[2] * 256 + b[1]
        sh == 23 - (ex - 127)
    IN  IF ex = 0 /\ man = 0 THEN 0
        ELSE IF sh < 0 \/ sh > 23 THEN NotAnInt
        ELSE IF (8388608 + man) % (2 ^ sh) # 0 THEN NotAnInt
        ELSE (IF sign = 1 THEN -1 ELSE 1) * ((8388608 + man) \div (2 ^ sh))

\* n float32 samples read at byte offset off (0-based) of bytes; <<NotAnInt>>
\* when the file is too short
ReadF32s(bytes, off, n) ==
    IF Len(bytes) < off + 4 * n THEN <<NotAnInt>>
    ELSE [i \in 1..n |-> F32Decode(SubSeq(bytes, off + 4 * i - 3, off + 4 * i))]

\* the point count of the file header
ReadNpts(bytes) == IF Len(bytes) < 8 THEN 0 ELSE U32(SubSeq(bytes, 5, 8))

\* the Y array of a single-trace, even-X file: after the header and the
\* subfile header
DecodeY(bytes) == ReadF32s(bytes, 512 + 32, ReadNpts(bytes))

\* the X array of a file with one shared explicit X: directly after the header
DecodeSharedX(bytes) == ReadF32s(bytes, 512, ReadNpts(bytes))

\* the Y array of trace i (0-based) of a file with one shared explicit X
DecodeXY_Y(bytes, i) ==
    LET n == ReadNpts(bytes)
    IN  ReadF32s(bytes, 512 + 4 * n + (32 + 4 * n) * i + 32, n)

\* the Y array of trace i (0-based) of a multi-trace even-X file
DecodeMultiY(bytes, i) ==
    LET n == ReadNpts(bytes)
    IN  ReadF32s(bytes, 512 + (32 + 4 * n) * i + 32, n)

\* ------------------------------------------------------------ the claims
Returned == pc = "returned"

\* the storage sink took the bytes, or the call never got to it
SinkOk == args.io = "ok"

IsEmpty(a) == np_size(a) = 0

Is1D(a) == a.nd = 1

\* the last call was a Y-only write with default flags of a non-empty 1-D Y
YOnlyCall ==
    /\ Returned /\ SinkOk
    /\ writer.file_type = 0
    /\ Is1D(args.y_values) /\ ~IsEmpty(args.y_values)
    /\ IsEmpty(args.x_values) /\ IsEmpty(args.w_values)

\* C1: a Y-only write of a non-empty 1-D Y with default flags returns True and
\* the file holds the Y samples, in order, directly after the 512-byte header
\* and the 32-byte subfile header: the reference decoder reads Y back.
C1_YOnlyRoundTrip ==
    YOnlyCall =>
        /\ res.ret = "True"
        /\ DecodeY(res.disk.bytes) = args.y_values.rows[1]

\* C1, where the C long has 4 bytes: there the claim holds
C1_YOnlyRoundTrip_Long4 == long_size = 4 => C1_YOnlyRoundTrip

\* the last call was a shared-explicit-X write of equal-length 1-D X and Y
XYCall ==
    /\ Returned /\ SinkOk
    /\ writer.file_type = TXVALS
    /\ Is1D(args.y_values) /\ Is1D(args.x_values)
    /\ ~IsEmpty(args.y_values)
    /\ np_len(args.x_values) = np_len(args.y_values)
    /\ IsEmpty(args.w_values)

\* C2: a write of equal-length 1-D X and Y with TXVALS returns True; X is one
\* block directly after the header, Y follows the single subfile header: the
\* reference decoder reads X and Y back.
C2_XYRoundTrip ==
    XYCall =>
        /\ res.ret = "True"
        /\ DecodeSharedX(res.disk.bytes) = args.x_values.rows[1]
        /\ DecodeXY_Y(res.disk.bytes, 0) = args.y_values.rows[1]

\* C2, where the C long has 4 bytes: there the claim holds
C2_XYRoundTrip_Long4 == long_size = 4 => C2_XYRoundTrip

\* the last call was a multi-trace even-X write of a 2-D Y of 2 or more rows
MultiYCall ==
    /\ Returned /\ SinkOk
    /\ writer.file_type = TMULTI
    /\ ~Is1D(args.y_values) /\ Len(args.y_values.rows) >= 2
    /\ IsEmpty(args.x_values) /\ IsEmpty(args.w_values)

\* C3: a write of a rectangular 2-D Y with TMULTI and no X completes and the
\* file holds one subfile per row, in row order, whose payload is that row.
C3_MultiYRoundTrip ==
    MultiYCall =>
        /\ res.ret = "True"
        /\ \A i \in 1..Len(args.y_values.rows) :
              DecodeMultiY(res.disk.bytes, i - 1) = args.y_values.rows[i]

\* C4: a single-trace Y-only write with default flags, N samples and no log
\* payload produces exactly 512 + 32 + 4 * N bytes.
C4_YOnlyLength ==
    (YOnlyCall /\ writer.log_data = <<>> /\ writer.log_text = <<>>) =>
        /\ res.opened
        /\ Len(res.file_output) = 512 + 32 + 4 * np_len(args.y_values)

\* C4, where the C long has 4 bytes: there the claim holds
C4_YOnlyLength_Long4 == long_size = 4 => C4_YOnlyLength

\* C5: every header generate_header returns is exactly 512 bytes long; a
\* header of any other length, shorter or longer, is never returned.
C5_HeaderIs512 ==
    (pc = "header_done" /\ hdr_ret.exc = "") => Len(hdr_ret.val) = 512

\* C5 for the class of SPCHeader.py alone: there the claim holds
C5_HeaderIs512_Module ==
    (pc = "header_done" /\ hdr_ret.cls = "SPCHeader.SPCHeader") => C5_HeaderIs512

\* C5 seen from write_spc_file: the header of every file written is 512 bytes
C5_WrittenHeaderIs512 ==
    (Returned /\ res.opened) => Len(res.file_header) = 512

\* C6: every subfile header write_spc_file puts into the output is exactly 32
\* bytes long.
C6_SubheadersAre32 ==
    (Returned /\ res.opened) =>
        \A i \in 1..Len(res.sub_heads) : Len(res.sub_heads[i]) = 32

\* C6, where the C long has 4 bytes: there every subfile header is 32 bytes
C6_SubheadersAre32_Long4 == long_size = 4 => C6_SubheadersAre32

\* shape[-1] of a non-empty array: the points per trace
Trailing(a) == Len(a.rows[1])

\* the last call had X and Y both non-empty with different trailing extents
MismatchCall ==
    /\ Returned
    /\ ~IsEmpty(args.x_values) /\ ~IsEmpty(args.y_values)
    /\ Trailing(args.x_values) # Trailing(args.y_values)

\* the call reported a validation failure (it returned False without getting
\* to the destination) and nothing was written
Rejected == res.ret = "False" /\ ~res.opened /\ res.disk.state = "untouched"

\* C7: when X and Y are both non-empty and their trailing extents differ,
\* write_spc_file reports a validation failure and nothing is written.
C7_MismatchRejected == MismatchCall => Rejected

\* C7 read loosely (an exception counts as a report): no file is written
C7_MismatchNotWritten == MismatchCall => res.disk.state = "untouched"

\* the last call had an empty X and a file type with the independent-X flag
MissingXCall ==
    /\ Returned
    /\ IsEmpty(args.x_values)
    /\ HasFlag(writer.file_type, TXYXYS)

\* C8: when X is empty and the file type has the independent-X flag set, alone
\* or with other flags, write_spc_file reports a validation failure and
\* nothing is written.
C8_MissingXRejected == MissingXCall => Rejected

\* C8 read loosely (an exception counts as a report): no file is written
C8_MissingXNotWritten == MissingXCall => res.disk.state = "untouched"

\* the W value in a subfile header: the four bytes before the reserved four
SubheaderW(sub_head) ==
    F32Decode(SubSeq(sub_head, Len(sub_head) - 7, Len(sub_head) - 4))

\* C9: with W-plane values supplied, a write whose trace count is not a
\* multiple of their count is rejected, and one whose trace count is a
\* multiple completes and every subfile header carries one of the W values.
C9_WPlanes ==
    (Returned /\ SinkOk /\ ~IsEmpty(args.y_values) /\ ~IsEmpty(args.w_values)) =>
        IF num_traces_of(args.y_values) % np_len(args.w_values) # 0
        THEN Rejected
        ELSE /\ res.ret = "True"
             /\ Len(res.sub_heads) = num_traces_of(args.y_values)
             /\ \A i \in 1..Len(res.sub_heads) :
                   \E k \in 1..np_len(args.w_values) :
                       SubheaderW(res.sub_heads[i]) = args.w_values.rows[1][k]

\* C9 for the default Y-only layout alone
C9_WPlanes_YOnly == writer.file_type = 0 => C9_WPlanes

\* C9, the half the code keeps: a trace count that is no multiple of the W
\* count never gets a file written
C9_BadWNotWritten ==
    (Returned /\ ~IsEmpty(args.w_values)
        /\ num_traces_of(args.y_values) % np_len(args.w_values) # 0) =>
        res.disk.state = "untouched" /\ res.ret # "True"

\* the start Z the claim gives trace i (0-based) of a call with Z array z
ExpectedZ(z, i) ==
    IF np_len(z) = 0 THEN 0
    ELSE IF np_len(z) = 1 THEN z.rows[1][1]
    ELSE IF i < np_len(z) THEN z.rows[1][i + 1]
    ELSE 0

\* the start Z in a subfile header: bytes 4..7
SubheaderStartZ(sub_head) == F32Decode(SubSeq(sub_head, 5, 8))

\* C10: the start Z in trace i's subfile header is 0 when Z is empty, Z[0]
\* when Z has one element, Z[i] when Z has more and reaches i, and 0 when Z
\* has more than one element but none at i; the Z array never makes the call
\* raise: a call that raises also raises with the Z array left out.
C10_StartZ ==
    /\ (Returned /\ res.opened) =>
          /\ Len(res.sub_heads) = num_traces_of(args.y_values)
          /\ \A i \in 1..Len(res.sub_heads) :
                SubheaderStartZ(res.sub_heads[i]) = ExpectedZ(args.z_values, i - 1)
    /\ (Returned /\ res.ret = "raise") =>
          write_spc_file(writer, long_size, args.y_values, args.x_values,
                         EmptyArr, args.w_values, args.io).ret = "raise"

\* C10's case: a write completed with a Z array of more than one element that
\* is shorter than the trace count
C10_Witness ==
    /\ Returned /\ res.ret = "True"
    /\ np_len(args.z_values) = 2
    /\ Len(res.sub_heads) = 3
    /\ SubheaderStartZ(res.sub_heads[2]) = args.z_values.rows[1][2]
    /\ SubheaderStartZ(res.sub_heads[3]) = 0

\* ------------------------------------------ writers with a log payload
\* the log payloads a caller gives SPCFileWriter: log_data bytes, log_text
LogDatas == {<<>>, <<1, 2, 3>>}

LogTexts == {<<>>, <<104, 105>>}

\* SPCFileWriter(file_type, log_data=.., log_text=..)
LoggedWriters ==
    {[SPCFileWriter(ft) EXCEPT !.log_data = d, !.log_text = t] :
        ft \in FileTypes, d \in LogDatas, t \in LogTexts}

InitLog ==
    /\ long_size \in LongSizes
    /\ writer \in LoggedWriters
    /\ args = NoArgs
    /\ res = Outcome("none", "", 0, Untouched)
    /\ pc = "constructed"
    /\ hdr = NoHeader
    /\ hdr_ret = NoHeaderRet
    /\ date_in = NoDate
    /\ compressed_date = NoCompressedDate
    /\ log_header = NoLogHeader
    /\ fit = NoFit
    /\ exponent_ret = NoExponent

\* one call writer.write_spc_file(file_name, y_values, x_values): Z and W at
\* their defaults, the storage sink working
WriteCallXY ==
    /\ pc = "constructed"
    /\ \E y \in YArrays, x \in XArrays :
          /\ res' = write_spc_file(writer, long_size, y, x, EmptyArr, EmptyArr, "ok")
          /\ args' = [y_values |-> y, x_values |-> x, z_values |-> EmptyArr,
                      w_values |-> EmptyArr, io |-> "ok"]
          /\ writer' = [writer EXCEPT !.exponent = res'.exponent]
    /\ pc' = "returned"
    /\ UNCHANGED <<long_size, hdr, hdr_ret, date_in, compressed_date, log_header, fit, exponent_ret>>

NextLog == WriteCallXY

SpecLog == InitLog /\ [][NextLog]_vars

\* ------------------------------------------------------- claims C11..C20
\* the layout, read from the flags by their names
SharedExplicitX(ft) == HasFlag(ft, TXVALS) /\ ~HasFlag(ft, TXYXYS)

IndependentXMulti(ft) == HasFlag(ft, TXYXYS) /\ HasFlag(ft, TMULTI)

LogSupplied == Len(writer.log_data) > 0 \/ Len(writer.log_text) > 0

\* a[i], 1-based, as a sequence of samples: a row, or one element of a 1-D array
RowOf(a, i) == IF a.nd = 1 THEN <<a.rows[1][i]>> ELSE a.rows[i]

\* the payload of trace i (1-based) of the last call: X_i then Y_i with
\* independent X, row i with the multi-trace flag, else the Y block
TracePayload(i) ==
    IF HasFlag(writer.file_type, TXYXYS)
    THEN F32Seq(RowOf(args.x_values, i)) \o F32Seq(RowOf(args.y_values, i))
    ELSE IF HasFlag(writer.file_type, TMULTI)
    THEN F32Seq(RowOf(args.y_values, i))
    ELSE F32Seq(Flat(args.y_values))

\* the segments of the last call's output, from the header to the last subfile
DataSegments ==
    res.file_header
    \o (IF SharedExplicitX(writer.file_type) THEN F32Seq(Flat(args.x_values)) ELSE <<>>)
    \o Concat([i \in 1..Len(res.sub_heads) |-> res.sub_heads[i] \o TracePayload(i)])

\* the log block of the last call's writer
LogSegments ==
    IF LogSupplied
    THEN generate_log_header(writer.log_data, writer.log_text, long_size)
         \o writer.log_data \o Utf8(writer.log_text)
    ELSE <<>>

\* C11: the output is the file header, the shared X block if the layout has a
\* shared explicit X, each trace's subfile header and payload in index order,
\* the directory table if the layout is independent-X multi-trace, and the
\* log header, log data and log text if a log payload was supplied.
C11_SegmentOrder ==
    (Returned /\ res.opened) =>
        res.file_output =
            DataSegments
            \o (IF IndependentXMulti(writer.file_type)
                THEN Concat(res.dir_pointers) ELSE <<>>)
            \o LogSegments

\* C11 with the directory table where the code puts one: when TXVALS and
\* TXYXYS are both set
C11_SegmentOrder_AsWritten ==
    (Returned /\ res.opened) =>
        res.file_output =
            DataSegments
            \o (IF HasFlag(writer.file_type, TXVALS) /\ HasFlag(writer.file_type, TXYXYS)
                THEN Concat(res.dir_pointers) ELSE <<>>)
            \o LogSegments

\* the log offset generate_header computes for the header of the last call
\* (lines 315-322): calc_log_offset plus the directory adjustment
ComputedLogOffset ==
    header_log_offset(
        [file_type |-> writer.file_type, num_subfiles |-> num_traces_of(args.y_values)],
        calc_log_offset(writer.file_type, num_traces_of(args.y_values),
                        args.x_values, args.y_values).val)

\* C12: the log offset the header encoder computes equals the offset at which
\* write_spc_file places the log header: the length of all it assembled
\* before the log block.
C12_LogOffset ==
    (Returned /\ res.opened /\ LogSupplied) =>
        ComputedLogOffset = Len(res.file_output) - Len(LogSegments)

\* C12 where the C long has 4 bytes and the arrays have the shape of the
\* layout: 1-D Y for one even-X trace, 1-D X and Y for one trace with explicit
\* X, 2-D X and Y for independent X with all three flags set
C12_LogOffset_Long4Shaped ==
    (long_size = 4
        /\ \/ writer.file_type = 0 /\ Is1D(args.y_values)
           \/ writer.file_type = TXVALS /\ Is1D(args.y_values) /\ Is1D(args.x_values)
           \/ writer.file_type = TMULTI + TXYXYS + TXVALS
                /\ ~Is1D(args.y_values) /\ ~Is1D(args.x_values))
    => C12_LogOffset

\* C12 for the header encoder alone in the multi-trace even-X layout: the log
\* offset it computes is the 512-byte header, a 32-byte subfile header per
\* row and four bytes per sample of Y
C12_LogOffset_MultiEvenX ==
    (pc = "header" /\ hdr.file_type = TMULTI /\ ~Is1D(hdr.y_values)) =>
        header_log_offset(hdr, calc_log_offset(hdr.file_type, hdr.num_subfiles,
                                               hdr.x_values, hdr.y_values).val)
            = 512 + 32 * Len(hdr.y_values.rows) + 4 * np_size(hdr.y_values)

\* the log-offset field of a header: the four bytes the encoder puts after
\* the custom axis labels, 244 bytes and the subfile count into the header
LogOffsetField(header) == SubSeq(header, 244 + long_size + 1, 244 + long_size + 4)

\* C13: the 4-byte log-offset field of the file header is zero in every
\* output, with and without a log block: both the field where the encoder
\* puts it and the four bytes at the format's offset 248.
C13_LogOffsetZero ==
    (Returned /\ res.opened) =>
        /\ LogOffsetField(res.file_header) = Zeros(4)
        /\ SubSeq(res.file_output, 249, 252) = Zeros(4)

\* C13's case: a file was written with a log block after the data, the
\* log-offset field zero
C13_Witness ==
    /\ Returned /\ res.ret = "True"
    /\ LogSupplied
    /\ Len(LogSegments) >= 64
    /\ Len(res.disk.bytes) = Len(DataSegments) + Len(LogSegments)
    /\ LogOffsetField(res.file_header) = Zeros(4)

\* the last call's output has a directory table: the entries of dir_pointers
\* between the last subfile and the log block
DirectoryWritten ==
    /\ res.dir_pointers # <<>>
    /\ res.file_output = DataSegments \o Concat(res.dir_pointers) \o LogSegments

\* the points per trace of Y, 0 for an empty Y
PointsPerTrace(y) == IF IsEmpty(y) THEN 0 ELSE Trailing(y)

\* C14: the header's numPoints field holds the shared Y point count in
\* layouts without per-trace X (a 1-D Y, or rows with the multi-trace flag);
\* with independent X it holds the offset at which the directory table starts
\* in the output when there is one, and 0 when there is none.
C14_NumPoints ==
    (Returned /\ res.opened) =>
        IF ~HasFlag(writer.file_type, TXYXYS)
        THEN (Is1D(args.y_values) \/ HasFlag(writer.file_type, TMULTI)) =>
                ReadNpts(res.file_output) = PointsPerTrace(args.y_values)
        ELSE IF DirectoryWritten
        THEN ReadNpts(res.file_output) = Len(DataSegments)
        ELSE ReadNpts(res.file_output) = 0

\* C14 with all three of TMULTI, TXYXYS and TXVALS set, or TXYXYS clear, for a
\* Y of at least one trace, where the C long has 4 bytes: there the claim holds
C14_NumPoints_Long4 ==
    (long_size = 4
        /\ num_traces_of(args.y_values) > 0
        /\ (~HasFlag(writer.file_type, TXYXYS)
            \/ writer.file_type = TMULTI + TXYXYS + TXVALS))
    => C14_NumPoints

\* entry i (1-based) of the directory table of the last call: offset, size, Z
DirEntry(i) ==
    [offset |-> U32(SubSeq(res.dir_pointers[i], 1, 4)),
     size |-> U32(SubSeq(res.dir_pointers[i], 5, 8)),
     z |-> F32Decode(SubSeq(res.dir_pointers[i], 9, 12))]

\* the offset in the last call's output of the subfile header of trace i
\* (1-based): the header, and the subfiles before it
SubfileOffset(i) ==
    Len(res.file_header)
    + Len(Concat([k \in 1..(i - 1) |-> res.sub_heads[k] \o TracePayload(k)]))

\* the numPoints field of a subfile header: bytes 16..19
SubheaderNumPoints(sub_head) == U32(SubSeq(sub_head, 17, 20))

\* the bytes the header encoder reserves for a directory table: what it adds
\* to calc_log_offset (lines 316-322)
ReservedForDirectory ==
    ComputedLogOffset
    - calc_log_offset(writer.file_type, num_traces_of(args.y_values),
                      args.x_values, args.y_values).val

\* C15: the output has a directory table if and only if the layout is
\* independent-X multi-trace, and the header encoder reserves 12 bytes per
\* trace in exactly those cases; a directory table has one 12-byte entry per
\* trace, in order, holding the offset of the trace's subfile header, the
\* size 32 + 4 * (len X_i + len Y_i) of its subfile and its Z value, and the
\* trace's subfile header has numPoints = len(Y_i).
C15_Directory ==
    (Returned /\ res.opened /\ num_traces_of(args.y_values) > 0) =>
        /\ DirectoryWritten <=> IndependentXMulti(writer.file_type)
        /\ ReservedForDirectory =
              (IF DirectoryWritten THEN 12 * num_traces_of(args.y_values) ELSE 0)
        /\ DirectoryWritten =>
              /\ Len(res.dir_pointers) = num_traces_of(args.y_values)
              /\ \A i \in 1..Len(res.dir_pointers) :
                    /\ Len(res.dir_pointers[i]) = 12
                    /\ DirEntry(i).offset = SubfileOffset(i)
                    /\ DirEntry(i).size =
                          32 + 4 * (Len(RowOf(args.x_values, i))
                                    + Len(RowOf(args.y_values, i)))
                    /\ DirEntry(i).z = ExpectedZ(args.z_values, i - 1)
                    /\ SubheaderNumPoints(res.sub_heads[i])
                          = Len(RowOf(args.y_values, i))

\* C15 with all three of TMULTI, TXYXYS and TXVALS set, or none of TMULTI and
\* TXYXYS, where the C long has 4 bytes: there the claim holds
C15_Directory_Long4 ==
    (long_size = 4
        /\ (writer.file_type = TMULTI + TXYXYS + TXVALS
            \/ writer.file_type \in {0, TXVALS}))
    => C15_Directory

\* C15, the part that does not depend on how the layout is read from the
\* flags: the header encoder reserves 12 bytes per trace exactly when the
\* output has a directory table
C15_ReservedWhenWritten ==
    (Returned /\ res.opened /\ num_traces_of(args.y_values) > 0) =>
        ReservedForDirectory =
            (IF DirectoryWritten THEN 12 * num_traces_of(args.y_values) ELSE 0)

\* ------------------------- writers with a timestamp and custom axis labels
\* the compress_date a caller gives SPCFileWriter: a datetime, or None
CompressDates == {Date(2024, 3, 15, 9, 30), NoDate}

\* the custom_units a caller gives SPCFileWriter: nothing (the default), or a
\* list of label strings
CustomUnits ==
    {FieldDefault, StrList(<<>>), StrList(<< <<88>> >>),
     StrList(<< <<99, 109>>, <<65>> >>)}

\* SPCFileWriter(file_type, compress_date=.., custom_units=..)
ConfiguredWriters ==
    {[SPCFileWriter(ft) EXCEPT !.compress_date = d, !.custom_units = u] :
        ft \in FileTypes, d \in CompressDates, u \in CustomUnits}

InitConfigured ==
    /\ long_size \in LongSizes
    /\ writer \in ConfiguredWriters
    /\ args = NoArgs
    /\ res = Outcome("none", "", 0, Untouched)
    /\ pc = "constructed"
    /\ hdr = NoHeader
    /\ hdr_ret = NoHeaderRet
    /\ date_in = NoDate
    /\ compressed_date = NoCompressedDate
    /\ log_header = NoLogHeader
    /\ fit = NoFit
    /\ exponent_ret = NoExponent

NextConfigured == WriteCallXY

SpecConfigured == InitConfigured /\ [][NextConfigured]_vars

\* what the last call would have left with the writer's compress_date and
\* custom_units at their defaults
PlainCall ==
    write_spc_file([writer EXCEPT !.compress_date = Date(2024, 3, 15, 9, 30),
                                  !.custom_units = FieldDefault],
                   long_size, args.y_values, args.x_values, args.z_values,
                   args.w_values, args.io)

\* the date field of a header: the four bytes after the subfile count and the
\* four unit and disposition bytes
DateField(header) == SubSeq(header, 28 + long_size + 1, 28 + long_size + 4)

\* C16: with compress_date None the date packer yields four zero bytes and a
\* write that succeeds with a timestamp succeeds without one, the header's
\* date field all zero.
C16_NoTimestamp ==
    (Returned /\ writer.compress_date.none /\ writer.custom_units = FieldDefault
        /\ PlainCall.ret = "True") =>
        /\ SPCDate(writer.compress_date) = [exc |-> "", val |-> Zeros(4)]
        /\ res.ret = "True"
        /\ DateField(res.file_header) = Zeros(4)

\* C16 for the date packer of SPCDate.py alone: None packs to four zero bytes
C16_NoTimestamp_Module ==
    (Returned /\ writer.compress_date.none) =>
        SPCDate_SPCDate(writer.compress_date) = [exc |-> "", val |-> Zeros(4)]

\* the custom-axis-label block of a header: the 30 bytes after the memo
CustomAxesField(header) == SubSeq(header, 214 + long_size + 1, 244 + long_size)

\* the caller's labels, each UTF-8 encoded, joined by null bytes
LabelBytes(items) == JoinNul([i \in 1..Len(items) |-> Utf8(items[i])])

\* C19: when the caller supplies custom_units as a list of label strings, a
\* write that succeeds without labels succeeds with them, and the header's
\* 30-byte custom-axis-label block holds the labels UTF-8 encoded, joined by
\* null bytes and fitted to 30 bytes.
C19_CustomLabels ==
    (Returned /\ ~writer.custom_units.is_field /\ ~writer.compress_date.none
        /\ PlainCall.ret = "True") =>
        /\ res.ret = "True"
        /\ CustomAxesField(res.file_header)
              = fit_byte_block(LabelBytes(writer.custom_units.items), AXES_LIMIT).val

\* ------------------------------------------------- the date packer alone
\* datetime field values: the ends of datetime's ranges and one inside; year
\* 4096 is the first whose packed value needs more than 32 bits
Years == {1, 2024, 4095, 4096}

Months == {1, 3, 12}

Days == {1, 15, 31}

Hours == {0, 9, 23}

Minutes == {0, 30, 59}

Datetimes ==
    {Date(y, mo, d, h, mi) :
        y \in Years, mo \in Months, d \in Days, h \in Hours, mi \in Minutes}

InitDate ==
    /\ long_size \in LongSizes
    /\ writer = SPCFileWriter(0)
    /\ args = NoArgs
    /\ res = Outcome("none", "", 0, Untouched)
    /\ pc = "date"
    /\ hdr = NoHeader
    /\ hdr_ret = NoHeaderRet
    /\ date_in \in Datetimes \cup {NoDate}
    /\ compressed_date = NoCompressedDate
    /\ log_header = NoLogHeader
    /\ fit = NoFit
    /\ exponent_ret = NoExponent

\* SPCDate(date_in).get() of the class defined in SPCFileWriter.py
ConstructDateWriter ==
    /\ pc = "date"
    /\ compressed_date' = [cls |-> "SPCFileWriter.SPCDate",
                           exc |-> SPCDate(date_in).exc, val |-> SPCDate(date_in).val]
    /\ pc' = "date_done"
    /\ UNCHANGED <<long_size, writer, args, res, hdr, hdr_ret, date_in, log_header, fit, exponent_ret>>

\* SPCDate(date_in).get() of the class defined in SPCDate.py
ConstructDateModule ==
    /\ pc = "date"
    /\ compressed_date' = [cls |-> "SPCDate.SPCDate",
                           exc |-> SPCDate_SPCDate(date_in).exc,
                           val |-> SPCDate_SPCDate(date_in).val]
    /\ pc' = "date_done"
    /\ UNCHANGED <<long_size, writer, args, res, hdr, hdr_ret, date_in, log_header, fit, exponent_ret>>

NextDate == ConstructDateWriter \/ ConstructDateModule

SpecDate == InitDate /\ [][NextDate]_vars

\* a | b on naturals, bit by bit
RECURSIVE BitOr(_, _)
BitOr(a, b) ==
    IF a = 0 THEN b
    ELSE IF b = 0 THEN a
    ELSE (IF a % 2 = 1 \/ b % 2 = 1 THEN 1 ELSE 0) + 2 * BitOr(a \div 2, b \div 2)

\* 4 little-endian bytes as a 32-bit word, in two 16-bit halves (TLC's
\* integers are signed 32-bit: a year of 2048 or more fills bit 31)
Lo16(b) == b[1] + b[2] * 256

Hi16(b) == b[3] + b[4] * 256

\* bits lo .. lo + width - 1 of v
BitField(v, lo, width) == (v \div (2 ^ lo)) % (2 ^ width)

FitsBitWidths(t) ==
    /\ t.minute < 64
    /\ t.hour < 32
    /\ t.day < 32
    /\ t.month < 16
    /\ t.year < 4096

\* bits 0-15 of minute | hour<<6 | day<<11 | month<<16 | year<<20
DateWordLo(t) ==
    BitOr(t.minute % 65536, BitOr((t.hour * 64) % 65536, (t.day * 2048) % 65536))

\* bits 16-31 of minute | hour<<6 | day<<11 | month<<16 | year<<20
DateWordHi(t) ==
    BitOr(t.minute \div 65536, BitOr((t.hour * 64) \div 65536,
          BitOr((t.day * 2048) \div 65536, BitOr(t.month, t.year * 16))))

\* C17: the packed date of a timestamp whose fields fit their bit widths is
\* the 4-byte little-endian value minute | hour<<6 | day<<11 | month<<16 |
\* year<<20, and bits 0-5, 6-10, 11-15, 16-19 and 20-31 of it are the
\* minute, hour, day, month and year that went in.
C17_PackedDate ==
    (pc = "date_done" /\ ~date_in.none /\ FitsBitWidths(date_in)) =>
        /\ compressed_date.exc = ""
        /\ Len(compressed_date.val) = 4
        /\ \A i \in 1..4 : compressed_date.val[i] \in 0..255
        /\ Lo16(compressed_date.val) = DateWordLo(date_in)
        /\ Hi16(compressed_date.val) = DateWordHi(date_in)
        /\ BitField(Lo16(compressed_date.val), 0, 6) = date_in.minute
        /\ BitField(Lo16(compressed_date.val), 6, 5) = date_in.hour
        /\ BitField(Lo16(compressed_date.val), 11, 5) = date_in.day
        /\ BitField(Hi16(compressed_date.val), 0, 4) = date_in.month
        /\ BitField(Hi16(compressed_date.val), 4, 12) = date_in.year

\* the writer's packer has packed 2024-03-15 09:30
C17_Witness ==
    /\ pc = "date_done"
    /\ compressed_date.cls = "SPCFileWriter.SPCDate"
    /\ date_in = Date(2024, 3, 15, 9, 30)
    /\ Lo16(compressed_date.val) = 30 + 9 * 64 + 15 * 2048
    /\ Hi16(compressed_date.val) = 3 + 2024 * 16

\* --------------------------------------- headers with descriptor texts
\* the longest descriptor text tried: one more than the 9-byte field holds
MaxText == 10

\* printable ASCII (32..126), a different character at neighbouring places
TextChar(i) == 32 + ((37 * i) % 95)

\* the text of n characters that starts at place k
Text(n, k) == [i \in 1..n |-> TextChar(i + k)]

Texts == {Text(n, k) : n \in 0..MaxText, k \in {0, 1}}

\* SPCHeader objects that differ in res_desc and src_instrument_desc
TextHeaders ==
    {[SPCHeader(SPCFileWriter(0), 2, PackDate(Date(2024, 3, 15, 9, 30)).val,
                EmptyArr, Arr1(<<11, -12>>), 0, 2, 1, FALSE)
        EXCEPT !.res_desc = r, !.src_instrument_desc = s] :
        r \in Texts, s \in Texts}

InitHeaderText ==
    /\ long_size \in LongSizes
    /\ writer = SPCFileWriter(0)
    /\ args = NoArgs
    /\ res = Outcome("none", "", 0, Untouched)
    /\ pc = "header"
    /\ hdr \in TextHeaders
    /\ hdr_ret = NoHeaderRet
    /\ date_in = NoDate
    /\ compressed_date = NoCompressedDate
    /\ log_header = NoLogHeader
    /\ fit = NoFit
    /\ exponent_ret = NoExponent

SpecHeaderText == InitHeaderText /\ [][NextHeader]_vars

\* the descriptor fields of the format: fres at offset 36, fsource at 45
ResDescField(header) == SubSeq(header, 37, 45)

SrcInstrumentField(header) == SubSeq(header, 46, 54)

\* the same fields where the encoder puts them: after a subfile count of
\* long_size bytes
ResDescWritten(header) == SubSeq(header, 32 + long_size + 1, 32 + long_size + 9)

SrcInstrumentWritten(header) == SubSeq(header, 41 + long_size + 1, 41 + long_size + 9)

\* a field with its null bytes stripped
StripNul(b) == SelectSeq(b, LAMBDA c : c # 0)

\* a 9-byte field holds text: whole when it fits, else 8 bytes and a null
Holds(fld, text) ==
    IF Len(text) <= 9 THEN Len(fld) = 9 /\ StripNul(fld) = text
    ELSE fld = SubSeq(text, 1, 8) \o <<0>>

\* C18: a printable-ASCII resolution or source-instrument descriptor of at
\* most 9 bytes is stored in its header field so that stripping the null
\* bytes gives the text back; a longer one is stored as its first 8 bytes
\* followed by a null byte.
C18_Descriptors ==
    (pc = "header_done" /\ hdr_ret.exc = "") =>
        /\ Holds(ResDescField(hdr_ret.val), hdr.res_desc)
        /\ Holds(SrcInstrumentField(hdr_ret.val), hdr.src_instrument_desc)

\* C18 where struct.pack("l") has 4 bytes
C18_Descriptors_Long4 == (long_size = 4) => C18_Descriptors

\* C18 for the fields where the encoder puts them, at either size of a long
C18_Descriptors_AsWritten ==
    (pc = "header_done" /\ hdr_ret.exc = "") =>
        /\ Holds(ResDescWritten(hdr_ret.val), hdr.res_desc)
        /\ Holds(SrcInstrumentWritten(hdr_ret.val), hdr.src_instrument_desc)

\* ------------------------------------------------------ the storage sink
\* C20: once write_spc_file has reached the destination, a failure of the
\* sink while opening or writing makes the call return False and raise
\* nothing, and a write that completes makes it return True with the whole
\* output stored.
C20_StorageFailure ==
    (Returned /\ res.opened) =>
        /\ res.exc = ""
        /\ (args.io = "ok") => (res.ret = "True" /\ res.disk = Written(res.file_output))
        /\ (args.io # "ok") => (res.ret = "False" /\ res.disk.state # "written")

\* the sink has failed while writing the assembled output of a call
C20_Witness ==
    /\ Returned /\ res.opened
    /\ args.io = "write_fails"
    /\ Len(res.file_output) > 512
    /\ res.ret = "False"
    /\ res.disk = Partial

\* ------------------------------------------- two calls on one writer
\* a second write_spc_file on the same writer object, with the X values of
\* the first call and any Y values
WriteAgain ==
    /\ pc = "returned"
    /\ \E y \in YArrays :
          /\ res' = write_spc_file(writer, long_size, y, args.x_values, EmptyArr, EmptyArr, "ok")
          /\ args' = [args EXCEPT !.y_values = y]
          /\ writer' = [writer EXCEPT !.exponent = res'.exponent]
    /\ pc' = "returned_again"
    /\ UNCHANGED <<long_size, hdr, hdr_ret, date_in, compressed_date, log_header, fit, exponent_ret>>

NextRepeat == WriteCallXY \/ WriteAgain

SpecRepeat == Init /\ [][NextRepeat]_vars

\* C21: a call of write_spc_file changes no attribute of the writer, its
\* exponent included, whether it returns True, False or raises; so what a
\* call leaves is what the same call leaves on a freshly constructed writer,
\* whatever was called before.
C21_WriterUnchanged ==
    [][/\ writer' = writer
       /\ res' = write_spc_file(SPCFileWriter(writer.file_type), long_size,
                                args'.y_values, args'.x_values, args'.z_values,
                                args'.w_values, args'.io)]_vars

\* a second call on one multi-trace writer has written a file, the writer's
\* exponent still the constructor's
C21_Witness ==
    /\ pc = "returned_again"
    /\ HasFlag(writer.file_type, TMULTI) /\ HasFlag(writer.file_type, TXYXYS)
    /\ res.ret = "True"
    /\ Len(res.disk.bytes) > 512
    /\ writer.exponent = 0

\* ------------------------------------------------ the log header alone
\* the lengths of the log payloads tried: none, a few bytes, and lengths that
\* put the block size on both sides of the ties 2048 and 6144 of the rounding
LogDataLens == {0, 1, 3, 1900, 1983, 1984, 1985, 4000, 6080}

LogTextLens == {0, 1, 2, 84}

\* a binary payload of n bytes
LogDataOf(n) == [i \in 1..n |-> (7 * i) % 256]

\* a log text of n characters, ASCII but for the first, which is U+00E9 (two
\* bytes in UTF-8) when n is even
LogTextOf(n) == [i \in 1..n |-> IF i = 1 /\ n % 2 = 0 THEN 233 ELSE 97 + (i % 26)]

\* writers with a log payload: SPCFileWriter(file_type, log_data=.., log_text=..)
LogWriters ==
    {[SPCFileWriter(0) EXCEPT !.log_data = LogDataOf(d), !.log_text = LogTextOf(t)] :
        d \in LogDataLens, t \in LogTextLens}

InitLogHeader ==
    /\ long_size \in LongSizes
    /\ writer \in LogWriters
    /\ args = NoArgs
    /\ res = Outcome("none", "", 0, Untouched)
    /\ pc = "log"
    /\ hdr = NoHeader
    /\ hdr_ret = NoHeaderRet
    /\ date_in = NoDate
    /\ compressed_date = NoCompressedDate
    /\ log_header = NoLogHeader
    /\ fit = NoFit
    /\ exponent_ret = NoExponent

\* SPCLog(self.log_data, self.log_text).generate_log_header() of the class
\* defined in SPCFileWriter.py (lines 649-650)
GenerateLogWriter ==
    /\ pc = "log"
    /\ log_header' = [cls |-> "SPCFileWriter.SPCLog",
                      val |-> generate_log_header(writer.log_data, writer.log_text, long_size)]
    /\ pc' = "log_done"
    /\ UNCHANGED <<long_size, writer, args, res, hdr, hdr_ret, date_in, compressed_date, fit, exponent_ret>>

\* the same of the class defined in SPCLog.py
GenerateLogModule ==
    /\ pc = "log"
    /\ log_header' = [cls |-> "SPCLog.SPCLog",
                      val |-> generate_log_header(writer.log_data, writer.log_text, long_size)]
    /\ pc' = "log_done"
    /\ UNCHANGED <<long_size, writer, args, res, hdr, hdr_ret, date_in, compressed_date, fit, exponent_ret>>

NextLogHeader == GenerateLogWriter \/ GenerateLogModule

SpecLogHeader == InitLogHeader /\ [][NextLogHeader]_vars

\* the 4-byte little-endian integer at offset off (0-based) of b, below 2^31
Int32At(b, off) ==
    b[off + 1] + b[off + 2] * 256 + b[off + 3] * 65536 + (b[off + 4] % 128) * 16777216

\* C22: the log block header is exactly 64 bytes: blockSize = 64 + textLen +
\* dataLen, memBlock = a multiple of 4096 no further than 2048 from blockSize
\* (0 when blockSize < 2048), textOffset = 64 + dataLen, dataLength = dataLen
\* and diskLength = 0, each a 4-byte integer, then 44 zero bytes.
C22_LogHeader ==
    (pc = "log_done") =>
        LET b == log_header.val
            dataLen == Len(writer.log_data)
            blockSize == 64 + Len(Utf8(writer.log_text)) + dataLen
        IN  /\ Len(b) = 64
            /\ Int32At(b, 0) = blockSize
            /\ Int32At(b, 4) % 4096 = 0
            /\ Int32At(b, 4) - blockSize \in -2048..2048
            /\ blockSize < 2048 => Int32At(b, 4) = 0
            /\ Int32At(b, 8) = 64 + dataLen
            /\ Int32At(b, 12) = dataLen
            /\ Int32At(b, 16) = 0
            /\ SubSeq(b, 21, 64) = Zeros(44)

\* C22 where struct.pack("l") has 4 bytes
C22_LogHeader_Long4 == (long_size = 4) => C22_LogHeader

\* the rounding of memBlock is to the nearest multiple and not up: a block of
\* 64 + 1900 bytes has memBlock 0, one of 64 + 1985 bytes has 4096, and the
\* ties 2048 and 6144 go to 0 and 8192
C22_MemBlockNearest ==
    (pc = "log_done" /\ long_size = 4) =>
        LET blockSize == 64 + Len(Utf8(writer.log_text)) + Len(writer.log_data)
            memBlock == Int32At(log_header.val, 4)
        IN  /\ blockSize = 1964 => memBlock = 0
            /\ blockSize = 2048 => memBlock = 0
            /\ blockSize = 2049 => memBlock = 4096
            /\ blockSize = 6144 => memBlock = 8192

\* ------------------------------------------------ dates past the widths
\* C23: the date packer validates nothing: for a timestamp with a field past
\* its bit width (a year of 4096 or more) it does not raise, and returns the
\* 4 low bytes of minute | hour<<6 | day<<11 | month<<16 | year<<20.
C23_NoValidation ==
    (pc = "date_done" /\ ~date_in.none) =>
        /\ compressed_date.exc = ""
        /\ Len(compressed_date.val) = 4
        /\ Lo16(compressed_date.val) = DateWordLo(date_in)
        /\ Hi16(compressed_date.val) = DateWordHi(date_in) % 65536

\* every timestamp with a year of 4096 or more makes both packers raise
C23_OverflowRaises ==
    (pc = "date_done" /\ ~date_in.none /\ date_in.year >= 4096) =>
        compressed_date.exc = "OverflowError"

\* ------------------------------------------------- fit_byte_block alone
\* the longest bytearray and the widest field tried
MaxFieldLen == 3

MaxLimit == 4

FieldBytes == {0, 65, 255}

RECURSIVE SeqsUpTo(_, _)
\* the sequences over S of length at most n
SeqsUpTo(S, n) ==
    IF n = 0 THEN {<<>>}
    ELSE SeqsUpTo(S, n - 1) \cup {Append(q, b) : q \in {t \in SeqsUpTo(S, n - 1) : Len(t) = n - 1}, b \in S}

InitFit ==
    /\ long_size \in LongSizes
    /\ writer = SPCFileWriter(0)
    /\ args = NoArgs
    /\ res = Outcome("none", "", 0, Untouched)
    /\ pc = "fit"
    /\ hdr = NoHeader
    /\ hdr_ret = NoHeaderRet
    /\ date_in = NoDate
    /\ compressed_date = NoCompressedDate
    /\ log_header = NoLogHeader
    /\ \E b \in SeqsUpTo(FieldBytes, MaxFieldLen), w \in 0..MaxLimit :
          fit = [NoFit EXCEPT !.arg = b, !.field = b, !.limit = w]
    /\ exponent_ret = NoExponent

\* fit_byte_block(field, limit) of SPCFileWriter.py
FitWriter ==
    /\ pc = "fit"
    /\ fit' = [cls |-> "SPCFileWriter.fit_byte_block", arg |-> fit.arg, limit |-> fit.limit,
               field |-> fit_byte_block_field(fit.field, fit.limit),
               exc |-> fit_byte_block(fit.field, fit.limit).exc,
               val |-> fit_byte_block(fit.field, fit.limit).val]
    /\ pc' = "fit_done"
    /\ UNCHANGED <<long_size, writer, args, res, hdr, hdr_ret, date_in, compressed_date, log_header, exponent_ret>>

\* fit_byte_block(field, limit) of common.py
FitCommon ==
    /\ pc = "fit"
    /\ fit' = [cls |-> "common.fit_byte_block", arg |-> fit.arg, limit |-> fit.limit,
               field |-> fit_byte_block_field(fit.field, fit.limit),
               exc |-> fit_byte_block(fit.field, fit.limit).exc,
               val |-> fit_byte_block(fit.field, fit.limit).val]
    /\ pc' = "fit_done"
    /\ UNCHANGED <<long_size, writer, args, res, hdr, hdr_ret, date_in, compressed_date, log_header, exponent_ret>>

NextFit == FitWriter \/ FitCommon

SpecFit == InitFit /\ [][NextFit]_vars

\* the fitted bytes the claim describes, for a width above 0 or an input that
\* is not longer than the width
Fitted(b, w) ==
    IF Len(b) < w THEN b \o Zeros(w - Len(b))
    ELSE IF Len(b) = w THEN b
    ELSE SubSeq(b, 1, w - 1) \o <<0>>

\* C24: fit_byte_block returns for every byte sequence and every width >= 0,
\* width 0 with a non-empty input included, without raising, a result of
\* exactly width bytes: the input zero-padded when shorter, the input when
\* equal, its first width bytes with the last forced to zero when longer.
C24_Total ==
    (pc = "fit_done") =>
        /\ fit.exc = ""
        /\ Len(fit.val) = fit.limit
        /\ fit.limit > 0 => fit.val = Fitted(fit.arg, fit.limit)

\* C24 for every width above 0
C24_Total_Positive == (fit.limit > 0) => C24_Total

\* C25: the bytearray the caller passed has the same length and contents
\* after the call, when the call padded as well as when it cut.
C25_Pure ==
    (pc = "fit_done") => fit.field = fit.arg

\* C25 for the calls that do not pad
C25_Pure_NoPadding == (Len(fit.arg) >= fit.limit) => C25_Pure

\* --------------------------------------- the exponent calculator alone
\* the longest X and Y array tried, and their samples
MaxExpLen == 2

ExpSamples == {-1000, -3, 1, 5}

ExpArrays == {Arr1(q) : q \in SeqsUpTo(ExpSamples, MaxExpLen) \ {<<>>}}

InitExponent ==
    /\ long_size \in LongSizes
    /\ writer = SPCFileWriter(0)
    /\ \E x \in ExpArrays, y \in ExpArrays :
          args = [NoArgs EXCEPT !.x_values = x, !.y_values = y]
    /\ res = Outcome("none", "", 0, Untouched)
    /\ pc = "exponent"
    /\ hdr = NoHeader
    /\ hdr_ret = NoHeaderRet
    /\ date_in = NoDate
    /\ compressed_date = NoCompressedDate
    /\ log_header = NoLogHeader
    /\ fit = NoFit
    /\ exponent_ret = NoExponent

\* self.calculate_exponent(x_values, y_values)
CalculateExponent ==
    /\ pc = "exponent"
    /\ exponent_ret' = calculate_exponent(args.x_values, args.y_values)
    /\ pc' = "exponent_done"
    /\ UNCHANGED <<long_size, writer, args, res, hdr, hdr_ret, date_in, compressed_date, log_header, fit>>

NextExponent == CalculateExponent

SpecExponent == InitExponent /\ [][NextExponent]_vars

\* the largest magnitude among the elements of X and Y
MaxAbs(x_values, y_values) ==
    LET f == Flat(x_values) \o Flat(y_values)
    IN  CHOOSE m \in {Abs(f[i]) : i \in 1..Len(f)} : \A j \in 1..Len(f) : m >= Abs(f[j])

\* the number of halvings after which m * 2^32 no longer exceeds 2^32
HalvingsNeeded(m) == CHOOSE e \in 0..30 : m <= 2 ^ e /\ (e > 0 => m > 2 ^ (e - 1))

\* C26: the exponent is the number of halvings that the largest magnitude
\* among all X and Y elements, times 2^32, needs to fit the 32-bit range, a
\* large negative sample counting by its magnitude.
C26_Exponent ==
    (pc = "exponent_done") =>
        /\ exponent_ret.exc = ""
        /\ exponent_ret.val = HalvingsNeeded(MaxAbs(args.x_values, args.y_values))

\* C26 for arrays whose largest element is also their largest magnitude
C26_Exponent_MaxIsLargest ==
    (/\ Abs(amax(args.x_values)) = MaxAbs(args.x_values, args.x_values)
     /\ Abs(amax(args.y_values)) = MaxAbs(args.y_values, args.y_values)) => C26_Exponent

\* ------------------------------------------- widths of the header fields
\* the encoded fields of hdr, in the order they are joined
EncodedFields == header_fields(hdr, long_size).val

\* the width of the k-th joined field: 6 first X, 7 last X, 8 subfile count,
\* 16 peak point, 21 modification flags, 27 Z-subfile increment, 28 W-plane
\* count, 29 W-plane increment
Width(k) == Len(EncodedFields[k])

\* the offset of the k-th joined field in the header
OffsetOf(k) == Len(Concat(SubSeq(EncodedFields, 1, k - 1)))

\* C27: in the file header first X and last X occupy 8 bytes each, subfile
\* count, modification flags and W-plane count 4 bytes each, and peak point,
\* Z-subfile increment and W-plane increment 4 bytes each.
C27_FieldWidths ==
    (pc = "header_done" /\ hdr_ret.exc = "") =>
        /\ hdr_ret.val = Concat(EncodedFields)
        /\ Width(6) = 8 /\ Width(7) = 8
        /\ Width(8) = 4 /\ Width(21) = 4 /\ Width(28) = 4
        /\ Width(16) = 4 /\ Width(27) = 4 /\ Width(29) = 4

\* the widths the encoder gives them: the three integers a native long, the
\* peak point 2 bytes, the two increments 4 bytes, first and last X 8 bytes
C27_FieldWidths_AsWritten ==
    (pc = "header_done" /\ hdr_ret.exc = "") =>
        /\ hdr_ret.val = Concat(EncodedFields)
        /\ Width(6) = 8 /\ Width(7) = 8
        /\ Width(8) = long_size /\ Width(21) = long_size /\ Width(28) = long_size
        /\ Width(16) = 2 /\ Width(27) = 4 /\ Width(29) = 4

\* with a 4-byte long and raw fields of the default sizes the fields sit at
\* the offsets of the 512-byte layout, the peak point in 2 bytes at 54
C27_Offsets_Long4 ==
    (pc = "header_done" /\ hdr_ret.exc = "" /\ long_size = 4
        /\ Len(hdr.calib_plus_one) = 1 /\ Len(hdr.data_mul) = 4) =>
        /\ OffsetOf(6) = 8 /\ OffsetOf(7) = 16 /\ OffsetOf(8) = 24
        /\ OffsetOf(16) = 54 /\ OffsetOf(17) = 56 /\ OffsetOf(21) = 252
        /\ OffsetOf(27) = 312 /\ OffsetOf(28) = 316 /\ OffsetOf(29) = 320
        /\ Len(hdr_ret.val) = 512

\* ------------------------------------------------- first and last X
\* the first X and last X fields of a header: the doubles at offsets 8 and 16
FirstXField(header) == SubSeq(header, 9, 16)

LastXField(header) == SubSeq(header, 17, 24)

\* C28: the header's first and last X are 0 and the number of Y points per
\* trace when X is empty, for a single-trace and for a multi-trace Y alike,
\* and the smallest and largest element of X when X is not empty.
C28_FirstLastX ==
    (Returned /\ res.opened) =>
        IF np_size(args.x_values) = 0
        THEN /\ FirstXField(res.file_header) = F64Bytes(0)
             /\ LastXField(res.file_header) = F64Bytes(PointsPerTrace(args.y_values))
        ELSE /\ FirstXField(res.file_header) = F64Bytes(amin(args.x_values))
             /\ LastXField(res.file_header) = F64Bytes(amax(args.x_values))

\* C28 for the calls with X values, with a 1-D Y, or with as many traces as
\* points in each
C28_FirstLastX_Len ==
    (\/ np_size(args.x_values) # 0
     \/ args.y_values.nd = 1
     \/ np_len(args.y_values) = PointsPerTrace(args.y_values)) => C28_FirstLastX

\* ------------------------------------------- one write, after assembly
\* C29: a call opens and writes the destination at most once and only with
\* the whole byte stream assembled: a call that returns False for its
\* arguments or raises, in validation or in an encoder, has not opened the
\* destination and leaves it untouched; a call that opened it had the header
\* and every subfile in its output, and what it stored is that output.
C29_WriteLast ==
    Returned =>
        /\ (res.ret = "raise" \/ ~res.opened) => (~res.opened /\ res.disk = Untouched)
        /\ res.opened =>
              /\ res.exc = ""
              /\ Len(res.sub_heads) = num_traces_of(args.y_values)
              /\ SubSeq(res.file_output, 1, Len(res.file_header)) = res.file_header
              /\ res.disk \in {Written(res.file_output), Untouched, Partial}
              /\ res.disk = Untouched => args.io = "open_fails"

\* a call has raised in the loop over the traces, the header already encoded,
\* and the destination is untouched
C29_Witness ==
    /\ Returned
    /\ res.ret = "raise"
    /\ np_size(args.w_values) # 0
    /\ ~bad_w(num_traces_of(args.y_values), args.w_values)
    /\ res.exc = "TypeError"
    /\ res.disk = Untouched

\* ------------------------------------------------ the log block at the end
\* the last call's output up to the log block: the data segments and the
\* directory table where the code writes one
BeforeLog ==
    DataSegments
    \o (IF HasFlag(writer.file_type, TXVALS) /\ HasFlag(writer.file_type, TXYXYS)
        THEN Concat(res.dir_pointers) ELSE <<>>)

\* the bytes of the last call's output after BeforeLog
AfterData == SubSeq(res.file_output, Len(BeforeLog) + 1, Len(res.file_output))

\* b is a log block of the writer's payload: a 64-byte header that starts
\* with the block size and has the text offset at 8, the binary data, the text
IsLogBlock(b) ==
    /\ Len(b) = 64 + Len(writer.log_data) + Len(Utf8(writer.log_text))
    /\ Int32At(b, 0) = Len(b)
    /\ Int32At(b, 8) = 64 + Len(writer.log_data)
    /\ SubSeq(b, 65, Len(b)) = writer.log_data \o Utf8(writer.log_text)

\* C30: the output ends with a log block (64-byte log header, log binary
\* data, UTF-8 log text) exactly when the writer was given a non-empty log
\* binary payload or a non-empty log text; with both empty it ends with the
\* last trace's payload or the directory table.
C30_LogBlock ==
    (Returned /\ res.opened) =>
        /\ SubSeq(res.file_output, 1, Len(BeforeLog)) = BeforeLog
        /\ IF LogSupplied THEN IsLogBlock(AfterData) ELSE AfterData = <<>>

\* C30 where struct.pack("l") has 4 bytes
C30_LogBlock_Long4 == (long_size = 4) => C30_LogBlock

\* C30 but for the width of the log header: bytes follow the data exactly
\* when a log payload or a log text was given, and they end with the binary
\* data and the text
C30_LogPresence ==
    (Returned /\ res.opened) =>
        /\ SubSeq(res.file_output, 1, Len(BeforeLog)) = BeforeLog
        /\ LogSupplied <=> AfterData # <<>>
        /\ LogSupplied =>
              SubSeq(AfterData, 4 * long_size + 49, Len(AfterData))
                  = writer.log_data \o Utf8(writer.log_text)

====
